---- MODULE Spec2Model ----
(***************************************************************************)
(* Model of simple_pdf_parser.py: SimplePDFExtractor (splitter, model      *)
(* client with retry, chunk processor behind a semaphore, result merger,   *)
(* text renderer) and the main() driver.                                   *)
(*                                                                         *)
(* A Python str is a sequence of tokens (each token a TLA+ string), so     *)
(* that concatenation is \o and substring tests are computable.  A Python  *)
(* dict is a function whose DOMAIN is its key set; None is NoneVal.        *)
(***************************************************************************)
EXTENDS Integers, Sequences, FiniteSets, TLC

VARIABLES
    (* --- SimplePDFExtractor / main() --- *)
    chunk_size,         \* self.chunk_size
    concurrency_limit,  \* self.concurrency_limit
    semaphore,          \* value of self.semaphore (free slots)
    page_count,         \* page_count[d]: doc.page_count of pdf_files[d]
    dpc,                \* dpc[d]: position of extract_text(pdf_files[d])
    pdf_chunks,         \* pdf_chunks[d]: list returned by _split_pdf
    tpc,                \* tpc[d][c]: position of task _process_chunk (chunk c)
    attempt,            \* attempt[d][c]: tenacity attempt number while calling
    task_result,        \* task_result[d][c]: value returned by the task
    sleep_s,            \* sleep_s[d][c]: seconds of the sleep the task is in
    error_msg,          \* error_msg[d][c]: str(e) in the except branch
    final_exc,          \* final_exc[d][c]: exception the last attempt raised
    model_json,         \* model_json[d][c]: JSON as the model returned it
    completed,          \* completed[d]: chunk indexes in order of completion
    results,            \* results[d]: list returned by asyncio.gather
    final_json,         \* final_json[d]
    output,             \* output[d]: text written to <base_filename>.txt
    (* --- _split_pdf applied to drawn inputs --- *)
    sp_in,              \* [page_count, chunk_size]
    sp_pc,              \* "call" | "returned"
    sp_out,             \* the returned chunks
    (* --- _merge_results applied to drawn inputs --- *)
    mg_in,              \* results
    mg_pc,              \* "call" | "returned"
    mg_out,             \* the returned final_json
    (* --- _json_to_text, one loop iteration per step --- *)
    jt_data,            \* json_data
    jt_pc,              \* "loop" | "returned"
    jt_i,               \* items processed so far
    jt_st,              \* [text_parts, current_page, prev_is_incomplete, prev_content]
    jt_out              \* the returned text

drv_vars == <<chunk_size, concurrency_limit, semaphore, page_count, dpc,
              pdf_chunks, tpc, attempt, sleep_s, task_result, error_msg, final_exc,
              model_json, completed,
              results, final_json, output>>
sp_vars == <<sp_in, sp_pc, sp_out>>
mg_vars == <<mg_in, mg_pc, mg_out>>
jt_vars == <<jt_data, jt_pc, jt_i, jt_st, jt_out>>
vars == <<drv_vars, sp_vars, mg_vars, jt_vars>>

(***************************************************************************)
(* Bounds                                                                  *)
(***************************************************************************)
MaxDocs == 2          \* files found in the directory
MaxPages == 2         \* pages of all documents together
MaxChunkSize == 2     \* chunk_size passed to the constructor
MaxLimit == 2         \* concurrency_limit passed to the constructor
MaxLocalPage == 1     \* largest chunk-local page_index the model returns
MaxRespItems == 1     \* items in one response of the model
MaxSplitPages == 12   \* page counts given to _split_pdf on its own
MaxSplitChunk == 5    \* chunk sizes given to _split_pdf on its own
MaxMergeChunks == 2   \* results given to _merge_results on its own
MaxMergeItems == 2    \* items of one result given to _merge_results
MaxMergePage == 2     \* largest page_index given to _merge_results
MaxRenderItems == 3   \* items given to _json_to_text on its own
MaxRenderPage == 1    \* largest page_index given to _json_to_text

(***************************************************************************)
(* Program constants                                                       *)
(***************************************************************************)
StopAfterAttempt == 5   \* stop_after_attempt(5)
WaitMultiplier == 2     \* wait_exponential(multiplier=2, ...)
WaitMin == 4            \* wait_exponential(..., min=4, ...)
WaitMax == 60           \* wait_exponential(..., max=60)
CooldownSeconds == 10   \* asyncio.sleep(10)

(***************************************************************************)
(* Python values                                                           *)
(***************************************************************************)
NoneVal == [None |-> TRUE]

Get(d, key, default) == IF key \in DOMAIN d THEN d[key] ELSE default

Min(a, b) == IF a <= b THEN a ELSE b

\* str.lower() on the tokens used in error texts
LowerTok(t) ==
    CASE t = "Quota" -> "quota"
      [] t = "Rate" -> "rate"
      [] t = "Limit" -> "limit"
      [] OTHER -> t

Lower(s) == [k \in 1..Len(s) |-> LowerTok(s[k])]

\* needle in text
Contains(text, needle) ==
    \E k \in 0..(Len(text) - Len(needle)) :
        \A j \in 1..Len(needle) : text[k + j] = needle[j]

\* sep.join(parts)
RECURSIVE Join(_, _)
Join(sep, parts) ==
    IF parts = <<>> THEN <<>>
    ELSE IF Len(parts) = 1 THEN parts[1]
    ELSE parts[1] \o sep \o Join(sep, Tail(parts))

(***************************************************************************)
(* _split_pdf: for i in range(0, doc.page_count, chunk_size).  A chunk is  *)
(* (pdf_chunk_bytes, start_page); the bytes are the pages insert_pdf       *)
(* copies, from_page = start_page .. to_page = end_page - 1.               *)
(***************************************************************************)
\* end_page without the clamp to doc.page_count
EndPageUnclamped(i, pc, cs) == i + cs

EndPage(i, pc, cs) == Min(i + cs, pc)

RECURSIVE SplitFrom(_, _, _)
SplitFrom(i, pc, cs) ==
    IF i >= pc THEN <<>>
    ELSE <<[bytes |-> [k \in 1..(EndPage(i, pc, cs) - i) |-> i + k - 1],
            start_page |-> i]>>
         \o SplitFrom(i + cs, pc, cs)

SplitPdf(pc, cs) == SplitFrom(0, pc, cs)

(***************************************************************************)
(* _merge_results                                                          *)
(***************************************************************************)
\* `if res and "data" in res`
Present(res) == res # NoneVal /\ "data" \in DOMAIN res

\* a merge that stops at the first absent result
RECURSIVE ConcatUntilAbsent(_)
ConcatUntilAbsent(rs) ==
    IF rs = <<>> \/ ~Present(rs[1]) THEN <<>>
    ELSE rs[1].data \o ConcatUntilAbsent(Tail(rs))

RECURSIVE ConcatData(_)
ConcatData(rs) ==
    IF rs = <<>> THEN <<>>
    ELSE (IF Present(rs[1]) THEN rs[1].data ELSE <<>>) \o ConcatData(Tail(rs))

\* a sort key that puts items without page_index last
SortKeyMissingLast(x) == Get(x, "page_index", 99)

SortKey(x) == Get(x, "page_index", 0)

\* an unstable insertion: the element goes before elements of equal key
RECURSIVE InsertUnstable(_, _)
InsertUnstable(x, s) ==
    IF s = <<>> THEN <<x>>
    ELSE IF SortKey(s[1]) < SortKey(x)
         THEN <<s[1]>> \o InsertUnstable(x, Tail(s))
         ELSE <<x>> \o s

\* list.sort is stable: an element goes after every element whose key is
\* not greater than its own.
RECURSIVE InsertSorted(_, _)
InsertSorted(x, s) ==
    IF s = <<>> THEN <<x>>
    ELSE IF SortKey(s[1]) <= SortKey(x)
         THEN <<s[1]>> \o InsertSorted(x, Tail(s))
         ELSE <<x>> \o s

\* (the sorted prefix is bound to a value before the insertion uses it)
RECURSIVE SortByPage(_)
SortByPage(s) ==
    IF s = <<>> THEN <<>>
    ELSE CHOOSE r \in {InsertSorted(s[Len(s)], t) :
                          t \in {SortByPage(SubSeq(s, 1, Len(s) - 1))}} : TRUE

MergeResults(rs) == [data |-> SortByPage(ConcatData(rs))]

(***************************************************************************)
(* _json_to_text.  The running state of the loop is                        *)
(* [text_parts, current_page, prev_is_incomplete, prev_content].           *)
(***************************************************************************)
ItemType(item) == Get(item, "type", "paragraph")
PageIndex(item) == Get(item, "page_index", 0)
Content(item) == Get(item, "content", <<>>)
IsIncomplete(item) == Get(item, "is_incomplete", FALSE)

RenderStart ==
    [text_parts |-> <<>>, current_page |-> -1,
     prev_is_incomplete |-> FALSE, prev_content |-> <<>>]

\* `if prev_is_incomplete and item_type == "paragraph"`
Stitches(st, item) == st.prev_is_incomplete /\ ItemType(item) = "paragraph"

\* content after `content = prev_content + " " + content`
StitchedContent(st, item) ==
    IF Stitches(st, item)
    THEN st.prev_content \o <<" ">> \o Content(item)
    ELSE Content(item)

\* the stitch without the pop
PartsNotPopped(st, item) == st.text_parts

\* text_parts after `if text_parts: text_parts.pop()`
PartsAfterPop(st, item) ==
    IF Stitches(st, item) /\ st.text_parts # <<>>
    THEN SubSeq(st.text_parts, 1, Len(st.text_parts) - 1)
    ELSE st.text_parts

\* f"[page_index: {page_index}]"
PageMarker(n) == <<"[page_index: ", ToString(n), "]">>

\* the marker without the blank separator before it
PartsMarkerOnly(parts, current_page, page_index) ==
    IF page_index # current_page
    THEN Append(parts, <<"[page_index: ", ToString(page_index), "]">>)
    ELSE parts

\* text_parts after the `if page_index != current_page` block
PartsAfterMarker(parts, current_page, page_index) ==
    IF page_index # current_page
    THEN (IF parts # <<>> THEN Append(parts, <<>>) ELSE parts)
         \o <<PageMarker(page_index)>>
    ELSE parts

\* the block appended for the item's type
Block(item_type, content) ==
    IF item_type = "sub_title" THEN <<"## ">> \o content
    ELSE content

\* carrying the item's own content instead of the rebound local
CarriedOwnContent(st, item) == Content(item)

\* `prev_content = content`: content is the local rebound by the stitch
CarriedContent(st, item) == StitchedContent(st, item)

\* one iteration of `for i, item in enumerate(json_data["data"])`
RenderItem(st, item) ==
    [text_parts |->
        Append(PartsAfterMarker(PartsAfterPop(st, item), st.current_page,
                                PageIndex(item)),
               Block(ItemType(item), StitchedContent(st, item))),
     current_page |-> PageIndex(item),
     prev_is_incomplete |-> IsIncomplete(item),
     prev_content |-> CarriedContent(st, item)]

\* (the state after an item is bound to a value before the next item uses it)
RECURSIVE RenderAll(_, _)
RenderAll(st, data) ==
    IF data = <<>> THEN st
    ELSE CHOOSE r \in {RenderAll(nxt, Tail(data)) :
                          nxt \in {RenderItem(st, data[1])}} : TRUE

\* `if not json_data or "data" not in json_data or not json_data["data"]`
RenderEmpty(json_data) ==
    \/ json_data = NoneVal
    \/ "data" \notin DOMAIN json_data
    \/ json_data.data = <<>>

JsonToText(json_data) ==
    IF RenderEmpty(json_data) THEN <<>>
    ELSE CHOOSE r \in {Join(<<"\n\n">>, st.text_parts) :
                          st \in {RenderAll(RenderStart, json_data.data)}} : TRUE

(***************************************************************************)
(* Sequences over a set, up to a length                                    *)
(***************************************************************************)
SeqsUpTo(S, n) == UNION {[1..k -> S] : k \in 0..n}

Range(s) == {s[k] : k \in 1..Len(s)}

Last(s) == s[Len(s)]

Count(x, s) == Cardinality({k \in 1..Len(s) : s[k] = x})

(***************************************************************************)
(* States in which a component is not running                              *)
(***************************************************************************)
DefaultChunkSize == 3          \* chunk_size=3
DefaultConcurrencyLimit == 5   \* concurrency_limit=5

DrvIdle ==
    /\ chunk_size = DefaultChunkSize
    /\ concurrency_limit = DefaultConcurrencyLimit
    /\ semaphore = DefaultConcurrencyLimit
    /\ page_count = <<>>
    /\ dpc = <<>>
    /\ pdf_chunks = <<>>
    /\ tpc = <<>>
    /\ attempt = <<>>
    /\ sleep_s = <<>>
    /\ task_result = <<>>
    /\ error_msg = <<>>
    /\ final_exc = <<>>
    /\ model_json = <<>>
    /\ completed = <<>>
    /\ results = <<>>
    /\ final_json = <<>>
    /\ output = <<>>

SpIdle == sp_in = [page_count |-> 0, chunk_size |-> 1] /\ sp_pc = "returned" /\ sp_out = <<>>

MgIdle == mg_in = <<>> /\ mg_pc = "returned" /\ mg_out = [data |-> <<>>]

JtIdle ==
    /\ jt_data = [data |-> <<>>]
    /\ jt_pc = "returned"
    /\ jt_i = 0
    /\ jt_st = RenderStart
    /\ jt_out = <<>>

(***************************************************************************)
(* _split_pdf on drawn inputs                                              *)
(***************************************************************************)
SplitInit ==
    /\ sp_in \in [page_count : 0..MaxSplitPages, chunk_size : 1..MaxSplitChunk]
    /\ sp_pc = "call"
    /\ sp_out = <<>>
    /\ DrvIdle /\ MgIdle /\ JtIdle

SplitCall ==
    /\ sp_pc = "call"
    /\ sp_out' = SplitPdf(sp_in.page_count, sp_in.chunk_size)
    /\ sp_pc' = "returned"
    /\ UNCHANGED <<sp_in, drv_vars, mg_vars, jt_vars>>

SplitNext == SplitCall

SplitSpec == SplitInit /\ [][SplitNext]_vars

(***************************************************************************)
(* _merge_results on drawn inputs                                          *)
(***************************************************************************)
Words == {<<"a">>, <<"b">>}

MergeItems ==
    [type : {"paragraph"}, page_index : 0..MaxMergePage, content : Words,
     is_incomplete : {FALSE}]
    \cup [type : {"paragraph"}, content : Words, is_incomplete : {FALSE}]

MergeInputs ==
    {NoneVal, [error |-> <<"blocked">>]}
    \cup [data : SeqsUpTo(MergeItems, MaxMergeItems)]

MergeInit ==
    /\ mg_in \in SeqsUpTo(MergeInputs, MaxMergeChunks)
    /\ mg_pc = "call"
    /\ mg_out = [data |-> <<>>]
    /\ DrvIdle /\ SpIdle /\ JtIdle

MergeCall ==
    /\ mg_pc = "call"
    /\ mg_out' = MergeResults(mg_in)
    /\ mg_pc' = "returned"
    /\ UNCHANGED <<mg_in, drv_vars, sp_vars, jt_vars>>

MergeNext == MergeCall

MergeSpec == MergeInit /\ [][MergeNext]_vars

(***************************************************************************)
(* _json_to_text on drawn inputs, one loop iteration per step.  The input  *)
(* is a value _merge_results returns: a "data" list sorted by page_index.  *)
(***************************************************************************)
RenderItems ==
    [type : {"sub_title", "paragraph", "table"}, page_index : 0..MaxRenderPage,
     content : Words, is_incomplete : BOOLEAN]

SortedByPage(s) ==
    \A k \in 1..(Len(s) - 1) : SortKey(s[k]) <= SortKey(s[k + 1])

RenderInit ==
    /\ jt_data \in [data : {s \in SeqsUpTo(RenderItems, MaxRenderItems) : SortedByPage(s)}]
    /\ jt_pc = "loop"
    /\ jt_i = 0
    /\ jt_st = RenderStart
    /\ jt_out = <<>>
    /\ DrvIdle /\ SpIdle /\ MgIdle

\* the early `return ""`
RenderReturnEmpty ==
    /\ jt_pc = "loop"
    /\ RenderEmpty(jt_data)
    /\ jt_out' = <<>>
    /\ jt_pc' = "returned"
    /\ UNCHANGED <<jt_data, jt_i, jt_st, drv_vars, sp_vars, mg_vars>>

RenderLoop ==
    /\ jt_pc = "loop"
    /\ ~RenderEmpty(jt_data)
    /\ jt_i < Len(jt_data.data)
    /\ jt_st' = RenderItem(jt_st, jt_data.data[jt_i + 1])
    /\ jt_i' = jt_i + 1
    /\ UNCHANGED <<jt_data, jt_pc, jt_out, drv_vars, sp_vars, mg_vars>>

RenderReturn ==
    /\ jt_pc = "loop"
    /\ ~RenderEmpty(jt_data)
    /\ jt_i = Len(jt_data.data)
    /\ jt_out' = Join(<<"\n\n">>, jt_st.text_parts)
    /\ jt_pc' = "returned"
    /\ UNCHANGED <<jt_data, jt_i, jt_st, drv_vars, sp_vars, mg_vars>>

RenderNext == RenderReturnEmpty \/ RenderLoop \/ RenderReturn

RenderSpec == RenderInit /\ [][RenderNext]_vars

(***************************************************************************)
(* _call_gemini_api behind @retry, and _process_chunk                      *)
(***************************************************************************)
Max(a, b) == IF a >= b THEN a ELSE b

\* a wait that starts at min and doubles from there
WaitDoublingFromMin(n) == Min(WaitMin * 2 ^ (n - 1), WaitMax)

\* wait_exponential(multiplier=2, min=4, max=60) after failed attempt n
WaitExponential(n) ==
    Max(Max(0, WaitMin), Min(WaitMultiplier * 2 ^ (n - 1), WaitMax))

\* a stop that lets one attempt too many through
RetryStopsLate(n) == n > StopAfterAttempt

\* stop_after_attempt(5)
RetryStops(n) == n >= StopAfterAttempt

\* exceptions an attempt raises: the malformed-JSON error of json.loads and
\* errors of the client, by class name and message
Exceptions ==
    {[cls |-> <<"JSONDecodeError">>, msg |-> <<"Expecting", " ", "value">>],
     [cls |-> <<"ClientError">>, msg |-> <<"429", " ", "Quota", " ", "exceeded">>],
     [cls |-> <<"Quota", "Error">>, msg |-> <<"limit", " ", "reached">>]}

\* str(e) of the RetryError tenacity raises once the attempts are used up
\* (reraise is not set): "RetryError[<Future at 0x.. state=finished raised Cls>]"
RetryErrorStr(exc) ==
    <<"RetryError[", "<Future at ", "0x", " state=finished raised ">>
    \o exc.cls \o <<">", "]">>

\* the test without `.lower()`
QuotaSignatureCased(msg) ==
    \/ Contains(msg, <<"quota">>)
    \/ Contains(msg, <<"rate", " ", "limit">>)

\* `"quota" in error_msg.lower() or "rate limit" in error_msg.lower()`
QuotaSignature(msg) ==
    \/ Contains(Lower(msg), <<"quota">>)
    \/ Contains(Lower(msg), <<"rate", " ", "limit">>)

\* the error text handed on as an item
FailureAsItem(msg) ==
    [data |-> <<[type |-> "paragraph", page_index |-> 0, content |-> msg,
                 is_incomplete |-> FALSE]>>]

\* the except branch ends with `return None`, whatever the error text
FailureResult(msg) == NoneVal

\* the page index left as the model returned it
RebaseNone(result_json, base_page_index) == result_json

\* `item["page_index"] += base_page_index` for every item that has one
Rebase(result_json, base_page_index) ==
    IF "data" \in DOMAIN result_json
    THEN [result_json EXCEPT !.data =
            [k \in 1..Len(@) |->
                IF "page_index" \in DOMAIN @[k]
                THEN [@[k] EXCEPT !.page_index = @ + base_page_index]
                ELSE @[k]]]
    ELSE result_json

\* asyncio.Semaphore: acquire blocks while the value is 0
SemNeverLocked(value) == FALSE

SemLocked(value) == value = 0

\* a release that is lost
SemNoRelease(value) == value

SemRelease(value) == value + 1

\* asyncio.gather in completion order
GatherCompletionOrder(n, done_order) == done_order

\* asyncio.gather returns the results in the order of its arguments
GatherOrder(n, done_order) == [c \in 1..n |-> c]

(***************************************************************************)
(* main() and extract_text: one extractor, one task per document, one task *)
(* per chunk.  A step is the code between two suspension points.  The      *)
(* order in which ready tasks run is left free.                            *)
(***************************************************************************)
Docs == DOMAIN page_count

Chunks(d) == DOMAIN tpc[d]

RECURSIVE Sum(_)
Sum(s) == IF s = <<>> THEN 0 ELSE s[1] + Sum(Tail(s))

\* what the model may answer for a chunk
RespItems ==
    [type : {"paragraph"}, page_index : 0..MaxLocalPage, content : Words,
     is_incomplete : {FALSE}]
    \cup [type : {"paragraph"}, content : Words, is_incomplete : {FALSE}]

Responses ==
    {[error |-> <<"blocked">>]} \cup [data : SeqsUpTo(RespItems, MaxRespItems)]

Init ==
    /\ chunk_size \in 1..MaxChunkSize
    /\ concurrency_limit \in 1..MaxLimit
    /\ semaphore = concurrency_limit
    /\ page_count \in {pc \in SeqsUpTo(0..MaxPages, MaxDocs) : Sum(pc) <= MaxPages}
    /\ dpc = [d \in DOMAIN page_count |-> "start"]
    /\ pdf_chunks = [d \in DOMAIN page_count |-> <<>>]
    /\ tpc = [d \in DOMAIN page_count |-> <<>>]
    /\ attempt = [d \in DOMAIN page_count |-> <<>>]
    /\ sleep_s = [d \in DOMAIN page_count |-> <<>>]
    /\ task_result = [d \in DOMAIN page_count |-> <<>>]
    /\ error_msg = [d \in DOMAIN page_count |-> <<>>]
    /\ final_exc = [d \in DOMAIN page_count |-> <<>>]
    /\ model_json = [d \in DOMAIN page_count |-> <<>>]
    /\ completed = [d \in DOMAIN page_count |-> <<>>]
    /\ results = [d \in DOMAIN page_count |-> <<>>]
    /\ final_json = [d \in DOMAIN page_count |-> [data |-> <<>>]]
    /\ output = [d \in DOMAIN page_count |-> <<>>]
    /\ SpIdle /\ MgIdle /\ JtIdle

pure_vars == <<sp_vars, mg_vars, jt_vars>>

\* extract_text: the path does not exist or fitz.open raises
ExtractOpenFails(d) ==
    /\ dpc[d] = "start"
    /\ dpc' = [dpc EXCEPT ![d] = "returned"]
    /\ UNCHANGED <<chunk_size, concurrency_limit, semaphore, page_count,
                   pdf_chunks, tpc, attempt, sleep_s, task_result, error_msg, final_exc,
                   model_json, completed, results, final_json, output,
                   pure_vars>>

\* extract_text up to `await asyncio.gather(*tasks)`
ExtractStart(d) ==
    /\ dpc[d] = "start"
    /\ LET chunks == SplitPdf(page_count[d], chunk_size)
           n == Len(chunks)
       IN  /\ pdf_chunks' = [pdf_chunks EXCEPT ![d] = chunks]
           /\ tpc' = [tpc EXCEPT ![d] = [c \in 1..n |-> "acquire"]]
           /\ attempt' = [attempt EXCEPT ![d] = [c \in 1..n |-> 0]]
           /\ sleep_s' = [sleep_s EXCEPT ![d] = [c \in 1..n |-> 0]]
           /\ task_result' = [task_result EXCEPT ![d] = [c \in 1..n |-> NoneVal]]
           /\ error_msg' = [error_msg EXCEPT ![d] = [c \in 1..n |-> <<>>]]
           /\ final_exc' = [final_exc EXCEPT ![d] = [c \in 1..n |-> NoneVal]]
           /\ model_json' = [model_json EXCEPT ![d] = [c \in 1..n |-> NoneVal]]
    /\ dpc' = [dpc EXCEPT ![d] = "gather"]
    /\ UNCHANGED <<chunk_size, concurrency_limit, semaphore, page_count,
                   completed, results, final_json, output, pure_vars>>

\* _process_chunk: `async with self.semaphore`, then the first attempt is sent
Acquire(d, c) ==
    /\ tpc[d][c] = "acquire"
    /\ ~SemLocked(semaphore)
    /\ semaphore' = semaphore - 1
    /\ tpc' = [tpc EXCEPT ![d][c] = "calling"]
    /\ attempt' = [attempt EXCEPT ![d][c] = 1]
    /\ UNCHANGED <<chunk_size, concurrency_limit, page_count, dpc, pdf_chunks,
                   sleep_s, task_result, error_msg, final_exc, model_json, completed, results,
                   final_json, output, pure_vars>>

\* the task of chunk c returns: the slot is released on the way out
TaskReturns(d, c, value) ==
    /\ task_result' = [task_result EXCEPT ![d][c] = value]
    /\ tpc' = [tpc EXCEPT ![d][c] = "done"]
    /\ attempt' = [attempt EXCEPT ![d][c] = 0]
    /\ sleep_s' = [sleep_s EXCEPT ![d][c] = 0]
    /\ semaphore' = SemRelease(semaphore)
    /\ completed' = [completed EXCEPT ![d] = Append(@, c)]

\* an attempt returns parsed JSON: rebase, return result_json
AttemptReturns(d, c, resp) ==
    /\ tpc[d][c] = "calling"
    /\ model_json' = [model_json EXCEPT ![d][c] = resp]
    /\ TaskReturns(d, c, Rebase(resp, pdf_chunks[d][c].start_page))
    /\ UNCHANGED <<chunk_size, concurrency_limit, page_count, dpc, pdf_chunks,
                   error_msg, final_exc, results, final_json, output, pure_vars>>

\* an attempt raises and tenacity sleeps before the next one
AttemptRaises(d, c, exc) ==
    /\ tpc[d][c] = "calling"
    /\ ~RetryStops(attempt[d][c])
    /\ tpc' = [tpc EXCEPT ![d][c] = "backoff"]
    /\ sleep_s' = [sleep_s EXCEPT ![d][c] = WaitExponential(attempt[d][c])]
    /\ UNCHANGED <<chunk_size, concurrency_limit, semaphore, page_count, dpc,
                   pdf_chunks, attempt, task_result, error_msg, final_exc, model_json,
                   completed, results, final_json, output, pure_vars>>

\* the backoff sleep is over: the next attempt is sent
BackoffElapsed(d, c) ==
    /\ tpc[d][c] = "backoff"
    /\ tpc' = [tpc EXCEPT ![d][c] = "calling"]
    /\ attempt' = [attempt EXCEPT ![d][c] = @ + 1]
    /\ sleep_s' = [sleep_s EXCEPT ![d][c] = 0]
    /\ UNCHANGED <<chunk_size, concurrency_limit, semaphore, page_count, dpc,
                   pdf_chunks, task_result, error_msg, final_exc, model_json, completed,
                   results, final_json, output, pure_vars>>

\* the last attempt raises: tenacity raises RetryError, the except branch of
\* _process_chunk runs up to its sleep, or to `return None`
AttemptRaisesLast(d, c, exc) ==
    /\ tpc[d][c] = "calling"
    /\ RetryStops(attempt[d][c])
    /\ error_msg' = [error_msg EXCEPT ![d][c] = RetryErrorStr(exc)]
    /\ final_exc' = [final_exc EXCEPT ![d][c] = exc]
    /\ IF QuotaSignature(RetryErrorStr(exc))
       THEN /\ tpc' = [tpc EXCEPT ![d][c] = "cooldown"]
            /\ attempt' = [attempt EXCEPT ![d][c] = 0]
            /\ sleep_s' = [sleep_s EXCEPT ![d][c] = CooldownSeconds]
            /\ UNCHANGED <<semaphore, task_result, completed>>
       ELSE TaskReturns(d, c, FailureResult(RetryErrorStr(exc)))
    /\ UNCHANGED <<chunk_size, concurrency_limit, page_count, dpc, pdf_chunks,
                   model_json, results, final_json, output, pure_vars>>

\* `await asyncio.sleep(10)` is over: log, `return None`
CooldownElapsed(d, c) ==
    /\ tpc[d][c] = "cooldown"
    /\ TaskReturns(d, c, FailureResult(error_msg[d][c]))
    /\ UNCHANGED <<chunk_size, concurrency_limit, page_count, dpc, pdf_chunks,
                   error_msg, final_exc, model_json, results, final_json, output,
                   pure_vars>>

\* gather returns: merge, render, write the file, close
GatherReturns(d) ==
    /\ dpc[d] = "gather"
    /\ \A c \in Chunks(d) : tpc[d][c] = "done"
    /\ \E order \in {GatherOrder(Len(tpc[d]), completed[d])} :
       \E rs \in {[k \in 1..Len(tpc[d]) |-> task_result[d][order[k]]]} :
       \E merged \in {MergeResults(rs)} :
       \E text \in {JsonToText(merged)} :
          /\ results' = [results EXCEPT ![d] = rs]
          /\ final_json' = [final_json EXCEPT ![d] = merged]
          /\ output' = [output EXCEPT ![d] = text]
    /\ dpc' = [dpc EXCEPT ![d] = "written"]
    /\ UNCHANGED <<chunk_size, concurrency_limit, semaphore, page_count,
                   pdf_chunks, tpc, attempt, sleep_s, task_result, error_msg, final_exc,
                   model_json, completed, pure_vars>>

Next ==
    \/ \E d \in Docs : ExtractOpenFails(d)
    \/ \E d \in Docs : ExtractStart(d)
    \/ \E d \in Docs : \E c \in Chunks(d) : Acquire(d, c)
    \/ \E d \in Docs : \E c \in Chunks(d) : \E resp \in Responses :
          AttemptReturns(d, c, resp)
    \/ \E d \in Docs : \E c \in Chunks(d) : \E exc \in Exceptions :
          AttemptRaises(d, c, exc)
    \/ \E d \in Docs : \E c \in Chunks(d) : BackoffElapsed(d, c)
    \/ \E d \in Docs : \E c \in Chunks(d) : \E exc \in Exceptions :
          AttemptRaisesLast(d, c, exc)
    \/ \E d \in Docs : \E c \in Chunks(d) : CooldownElapsed(d, c)
    \/ \E d \in Docs : GatherReturns(d)

Spec == Init /\ [][Next]_vars

\* the event loop keeps running ready tasks; calls return and waits elapse
FairSpec == Spec /\ WF_vars(Next)

(***************************************************************************)
(* Properties of _split_pdf (SplitSpec)                                    *)
(***************************************************************************)
ChunkPages(ch) == Range(ch.bytes)

\* C1: for every page count P >= 0 and chunk size C >= 1 the chunks of
\* _split_pdf are in ascending order of start page, chunk k holds exactly the
\* pages [start, min(start + C, P)), every page of [0, P) is in exactly one
\* chunk and no other page is in any chunk, every chunk but the last has C
\* pages and the last has between 1 and C pages.
C1_SplitPartitions ==
    sp_pc = "returned" =>
        LET P == sp_in.page_count
            C == sp_in.chunk_size
            n == Len(sp_out)
        IN  /\ \A k \in 1..(n - 1) : sp_out[k].start_page < sp_out[k + 1].start_page
            /\ \A k \in 1..n :
                /\ ChunkPages(sp_out[k]) =
                      {p \in 0..(P - 1) : sp_out[k].start_page <= p
                                          /\ p < sp_out[k].start_page + C}
                /\ \A j \in 1..Len(sp_out[k].bytes) :
                      sp_out[k].bytes[j] = sp_out[k].start_page + j - 1
            /\ \A p \in 0..(P - 1) :
                  Cardinality({k \in 1..n : p \in ChunkPages(sp_out[k])}) = 1
            /\ \A k \in 1..(n - 1) : Len(sp_out[k].bytes) = C
            /\ n > 0 => Len(sp_out[n].bytes) \in 1..C
            /\ P = 0 => n = 0

\* a split into at least three chunks whose last chunk is short
C1_Witness ==
    /\ sp_pc = "returned"
    /\ Len(sp_out) >= 3
    /\ Len(Last(sp_out).bytes) < sp_in.chunk_size

(***************************************************************************)
(* Properties of _merge_results (MergeSpec)                                *)
(***************************************************************************)
WithKey(s, key) == SelectSeq(s, LAMBDA x : SortKey(x) = key)

\* C7: the list _merge_results returns is a permutation of the concatenation
\* of the data of the present results, is in non-decreasing page_index, and
\* items of equal page_index keep the relative order of the concatenation.
C7_MergeStableSort ==
    mg_pc = "returned" =>
        LET in == ConcatData(mg_in)
            out == mg_out.data
        IN  /\ Len(out) = Len(in)
            /\ \A x \in Range(in) \cup Range(out) : Count(x, out) = Count(x, in)
            /\ \A k \in 1..(Len(out) - 1) : SortKey(out[k]) <= SortKey(out[k + 1])
            /\ \A key \in {SortKey(x) : x \in Range(in)} :
                  WithKey(out, key) = WithKey(in, key)

\* a merge of two present results that reorders the concatenation and has
\* two different items on one page
C7_Witness ==
    /\ mg_pc = "returned"
    /\ Len(mg_in) = 2 /\ Present(mg_in[1]) /\ Present(mg_in[2])
    /\ mg_in[1].data # <<>> /\ mg_in[2].data # <<>>
    /\ mg_out.data # ConcatData(mg_in)
    /\ \E k \in 1..(Len(mg_out.data) - 1) :
          /\ SortKey(mg_out.data[k]) = SortKey(mg_out.data[k + 1])
          /\ mg_out.data[k] # mg_out.data[k + 1]

(***************************************************************************)
(* Properties of _json_to_text (RenderSpec)                                *)
(***************************************************************************)
IsMarker(block) == Len(block) = 3 /\ block[1] = "[page_index: "

\* the marker a block of text_parts stands under
MarkerAbove(parts, k) ==
    LET ms == {m \in 1..(k - 1) : IsMarker(parts[m])}
    IN  IF ms = {} THEN <<>>
        ELSE parts[CHOOSE m \in ms : \A m2 \in ms : m2 <= m]

\* C9: when the previous item was flagged is_incomplete and the current
\* item is a paragraph, the block emitted for the current item is
\* prev_content + " " + content, the block removed is the one emitted for
\* the previous item (every marker and separator before it stays), and the
\* merged block stands under the marker of the current item's page.
C9_StitchReplacesPrevBlock ==
    [][(jt_i' = jt_i + 1 /\ Stitches(jt_st, jt_data.data[jt_i + 1])) =>
          LET item == jt_data.data[jt_i + 1]
              prev == jt_data.data[jt_i]
              old == jt_st.text_parts
              new == jt_st'.text_parts
              kept == SubSeq(old, 1, Len(old) - 1)
          IN  /\ Last(new) = jt_st.prev_content \o <<" ">> \o Content(item)
              /\ Last(old) = Block(ItemType(prev), jt_st.prev_content)
              /\ SubSeq(new, 1, Len(kept)) = kept
              /\ \A k \in (Len(kept) + 1)..(Len(new) - 1) :
                    new[k] = <<>> \/ new[k] = PageMarker(PageIndex(item))
              /\ Len(new) = Len(kept) + 1
                            + (IF PageIndex(item) # PageIndex(prev) THEN 2 ELSE 0)
              /\ MarkerAbove(new, Len(new)) = PageMarker(PageIndex(item))
    ]_vars

\* an incomplete paragraph on page 0 followed by a paragraph on page 1,
\* rendered as one merged block under the page-1 marker
C9_Witness ==
    /\ jt_i = 2
    /\ jt_data.data[1].type = "paragraph" /\ jt_data.data[1].is_incomplete
    /\ jt_data.data[1].page_index = 0
    /\ jt_data.data[2].type = "paragraph" /\ jt_data.data[2].page_index = 1
    /\ jt_st.text_parts =
          <<PageMarker(0), <<>>, PageMarker(1),
            jt_data.data[1].content \o <<" ">> \o jt_data.data[2].content>>

\* the content item k is emitted with: its own, or stitched onto the
\* emitted content of its predecessor
RECURSIVE EmittedContent(_, _)
EmittedContent(data, k) ==
    IF k > 1 /\ IsIncomplete(data[k - 1]) /\ ItemType(data[k]) = "paragraph"
    THEN EmittedContent(data, k - 1) \o <<" ">> \o Content(data[k])
    ELSE Content(data[k])

\* C10 as stated: after an item is processed the carried prev_is_incomplete
\* is the item's own flag and the carried prev_content is the item's own
\* pre-merge content.
C10_CarriesOwnContent ==
    (jt_pc = "loop" /\ jt_i >= 1) =>
        /\ jt_st.prev_is_incomplete = IsIncomplete(jt_data.data[jt_i])
        /\ jt_st.prev_content = Content(jt_data.data[jt_i])

\* C10 amended: the carried prev_is_incomplete is the item's own flag and
\* the carried prev_content is the content the item was emitted with (its
\* own content when it was not stitched, otherwise the predecessor's carried
\* content, a space and its own content); a third paragraph after two
\* incomplete ones is stitched onto both.
C10_CarriesEmittedContent ==
    jt_i >= 1 =>
        /\ jt_st.prev_is_incomplete = IsIncomplete(jt_data.data[jt_i])
        /\ jt_st.prev_content = EmittedContent(jt_data.data, jt_i)
        /\ Last(jt_st.text_parts)
              = Block(ItemType(jt_data.data[jt_i]), jt_st.prev_content)

\* three paragraphs, the first two incomplete, all three in the last block
C10_Witness ==
    /\ jt_i = 3
    /\ \A k \in 1..3 : jt_data.data[k].type = "paragraph"
    /\ jt_data.data[1].is_incomplete /\ jt_data.data[2].is_incomplete
    /\ jt_st.prev_content =
          jt_data.data[1].content \o <<" ">> \o jt_data.data[2].content
          \o <<" ">> \o jt_data.data[3].content

(***************************************************************************)
(* Properties of the driver (Spec, FairSpec)                               *)
(***************************************************************************)
\* chunks of document d that hold a slot of the limiter
Held(d) == {c \in Chunks(d) : tpc[d][c] \in {"calling", "backoff", "cooldown"}}

\* chunks of document d with a model call in flight
InFlight(d) == {c \in Chunks(d) : tpc[d][c] = "calling"}

TotalHeld == Sum([d \in Docs |-> Cardinality(Held(d))])

AllChunksDone == \A d \in Docs : \A c \in Chunks(d) : tpc[d][c] = "done"

\* C2: while a document is extracted the chunks that hold a slot, and so the
\* model calls in flight, are at most concurrency_limit; a chunk gives its
\* slot back when it succeeds and when it fails, so once all chunks have
\* finished every slot is free.
C2_SlotsBounded ==
    /\ \A d \in Docs :
          /\ Cardinality(Held(d)) <= concurrency_limit
          /\ Cardinality(InFlight(d)) <= concurrency_limit
          /\ \A c \in Chunks(d) :
                tpc[d][c] = "done" => c \notin Held(d)
    /\ AllChunksDone => semaphore = concurrency_limit

\* a document with more chunks than slots: every slot is held and a chunk waits
C2_Witness ==
    \E d \in Docs :
        /\ Cardinality(Held(d)) = concurrency_limit
        /\ \E c \in Chunks(d) : tpc[d][c] = "acquire"
        /\ semaphore = 0

\* C3 as stated: each document has its own limiter, so a chunk that waits
\* for a slot can take one whenever its own document holds fewer than
\* concurrency_limit slots, whatever the other documents hold.
C3_OwnLimiterPerDocument ==
    \A d \in Docs : \A c \in Chunks(d) :
        (tpc[d][c] = "acquire" /\ Cardinality(Held(d)) < concurrency_limit)
            => ~SemLocked(semaphore)

\* C3 amended: in batch mode all documents are processed by the one
\* extractor and share its one limiter: the free slots are concurrency_limit
\* less the slots held by the chunks of all documents together, so a
\* waiting chunk can take a slot exactly when all documents together hold
\* fewer than concurrency_limit slots.
C3_SharedLimiter ==
    /\ semaphore = concurrency_limit - TotalHeld
    /\ TotalHeld <= concurrency_limit
    /\ \A d \in Docs : \A c \in Chunks(d) :
          tpc[d][c] = "acquire" =>
              (ENABLED Acquire(d, c) <=> TotalHeld < concurrency_limit)

\* a chunk of one document waits while another document holds every slot
C3_Witness ==
    \E d1 \in Docs : \E d2 \in Docs \ {d1} :
        /\ Cardinality(Held(d1)) = concurrency_limit
        /\ Held(d2) = {}
        /\ \E c \in Chunks(d2) : tpc[d2][c] = "acquire"

\* the item with the chunk's start page added to its page_index
Shifted(item, base) ==
    IF "page_index" \in DOMAIN item
    THEN [item EXCEPT !.page_index = @ + base]
    ELSE item

\* the items of the chunks of d whose model call returned data, rebased,
\* chunk after chunk from chunk c on
RECURSIVE ExpectedFrom(_, _)
ExpectedFrom(d, c) ==
    IF c > Len(tpc[d]) THEN <<>>
    ELSE (IF model_json[d][c] # NoneVal /\ "data" \in DOMAIN model_json[d][c]
          THEN [k \in 1..Len(model_json[d][c].data) |->
                    Shifted(model_json[d][c].data[k],
                            pdf_chunks[d][c].start_page)]
          ELSE <<>>)
         \o ExpectedFrom(d, c + 1)

Failed(d, c) == tpc[d][c] = "done" /\ task_result[d][c] = NoneVal

\* C4: whichever chunks of a document fail on every attempt, extract_text
\* ends by writing its output, and the merged result holds exactly the
\* rebased items of the chunks that succeeded, in ascending page order; a
\* failed chunk contributes nothing and a sibling's result is as the model
\* returned it.
C4_FailureIsolation ==
    \A d \in Docs :
        /\ \A c \in Chunks(d) : Failed(d, c) => model_json[d][c] = NoneVal
        /\ dpc[d] = "written" =>
            LET exp == ExpectedFrom(d, 1)
                out == final_json[d].data
            IN  /\ Len(out) = Len(exp)
                /\ \A x \in Range(exp) \cup Range(out) :
                      Count(x, out) = Count(x, exp)
                /\ \A k \in 1..(Len(out) - 1) :
                      SortKey(out[k]) <= SortKey(out[k + 1])
                /\ Len(results[d]) = Len(tpc[d])

\* a written document whose first chunk failed and whose second chunk's item
\* is in the merged result
C4_Witness ==
    \E d \in Docs :
        /\ dpc[d] = "written"
        /\ Len(tpc[d]) >= 2
        /\ Failed(d, 1)
        /\ ~Failed(d, 2)
        /\ final_json[d].data # <<>>

AllFinished == \A d \in Docs : dpc[d] \in {"written", "returned"}

\* C5: when every model call returns or raises and every wait elapses, every
\* chunk reaches its final outcome, no chunk waits for a slot forever, and
\* every extract_text that opened its document merges, renders and writes.
C5_FanInCompletes == <>(AllFinished /\ AllChunksDone)

\* all documents finished; one had more chunks than slots, one failed chunk
\* and one successful chunk
C5_Witness ==
    /\ AllFinished
    /\ \E d \in Docs :
          /\ dpc[d] = "written"
          /\ Len(tpc[d]) > concurrency_limit
          /\ \E c \in Chunks(d) : Failed(d, c)
          /\ \E c \in Chunks(d) : tpc[d][c] = "done" /\ ~Failed(d, c)

\* C6: every item of a successful chunk carries, in the chunk's result and
\* in the merged result, the page_index the model returned plus the chunk's
\* start page, added once; nothing else of the item changes.
C6_RebaseAddsStartPage ==
    \A d \in Docs :
        /\ \A c \in Chunks(d) :
              (tpc[d][c] = "done" /\ Present(task_result[d][c])) =>
                  /\ Len(task_result[d][c].data) = Len(model_json[d][c].data)
                  /\ \A k \in 1..Len(task_result[d][c].data) :
                        LET m == model_json[d][c].data[k]
                            r == task_result[d][c].data[k]
                        IN  /\ DOMAIN r = DOMAIN m
                            /\ \A f \in DOMAIN m \ {"page_index"} : r[f] = m[f]
                            /\ "page_index" \in DOMAIN m =>
                                  r.page_index = m.page_index
                                                 + pdf_chunks[d][c].start_page
        /\ dpc[d] = "written" =>
              \A x \in Range(final_json[d].data) :
                  "page_index" \in DOMAIN x =>
                      \E c \in Chunks(d) :
                          /\ Present(task_result[d][c])
                          /\ \E k \in 1..Len(model_json[d][c].data) :
                                LET m == model_json[d][c].data[k]
                                IN  /\ "page_index" \in DOMAIN m
                                    /\ m.content = x.content
                                    /\ x.page_index = m.page_index
                                          + pdf_chunks[d][c].start_page

\* a written document whose chunk with a start page above 0 returned an item
\* with a page_index
C6_Witness ==
    \E d \in Docs : \E c \in Chunks(d) :
        /\ dpc[d] = "written"
        /\ pdf_chunks[d][c].start_page > 0
        /\ Present(task_result[d][c])
        /\ \E k \in 1..Len(task_result[d][c].data) :
              /\ "page_index" \in DOMAIN task_result[d][c].data[k]
              /\ task_result[d][c].data[k] \in Range(final_json[d].data)
              /\ task_result[d][c].data[k].page_index
                    > model_json[d][c].data[k].page_index

\* the results of the tasks of d in the order the tasks completed
ByCompletion(d) == [k \in 1..Len(completed[d]) |-> task_result[d][completed[d][k]]]

\* the results of the tasks of d in the order of the chunks
ByChunk(d) == [c \in 1..Len(tpc[d]) |-> task_result[d][c]]

\* C8 as stated: the list given to the merger is in the order in which the
\* chunk tasks completed, so the merged order of same-page items follows the
\* completion order.
C8_MergedInCompletionOrder ==
    \A d \in Docs :
        dpc[d] = "written" =>
            /\ results[d] = ByCompletion(d)
            /\ \A key \in {SortKey(x) : x \in Range(final_json[d].data)} :
                  WithKey(final_json[d].data, key)
                      = WithKey(ConcatData(ByCompletion(d)), key)

\* C8 amended: the list given to the merger is in the order of the chunks
\* (asyncio.gather returns results in the order of its arguments), whatever
\* the order in which the tasks completed; items of different chunks with
\* the same page_index are merged in chunk order, so two runs with the same
\* model responses merge alike.
C8_MergedInChunkOrder ==
    \A d \in Docs :
        dpc[d] = "written" =>
            /\ results[d] = ByChunk(d)
            /\ \A key \in {SortKey(x) : x \in Range(final_json[d].data)} :
                  WithKey(final_json[d].data, key)
                      = WithKey(ConcatData(ByChunk(d)), key)

\* the second chunk completed first, both chunks have a different item on
\* the same page, and the first chunk's item comes first
C8_Witness ==
    \E d \in Docs :
        /\ dpc[d] = "written"
        /\ Len(completed[d]) = 2 /\ completed[d] = <<2, 1>>
        /\ Len(final_json[d].data) = 2
        /\ SortKey(final_json[d].data[1]) = SortKey(final_json[d].data[2])
        /\ final_json[d].data[1] # final_json[d].data[2]
        /\ final_json[d].data = task_result[d][1].data \o task_result[d][2].data

\* how often the page marker changes over the items: an item whose
\* page_index differs from its predecessor's, the first item included
MarkerChanges(data) ==
    Cardinality({k \in 1..Len(data) :
                    k = 1 \/ PageIndex(data[k]) # PageIndex(data[k - 1])})

NoIncomplete(data) == \A k \in 1..Len(data) : ~IsIncomplete(data[k])

\* the separator tokens of a text
Separators(text) == Cardinality({k \in 1..Len(text) : text[k] = "\n\n"})

\* C11 as stated: when no item is flagged is_incomplete the list of blocks
\* that is joined has (page-marker changes) + (items) elements.
C11_BlocksAreMarkersPlusItems ==
    (jt_pc = "returned" /\ NoIncomplete(jt_data.data)) =>
        Len(jt_st.text_parts)
            = MarkerChanges(jt_data.data) + Len(jt_data.data)

\* C11 amended: when no item is flagged is_incomplete the joined list has
\* one element per item, one per page-marker change and one empty separator
\* element before every marker but the first, that is (items) + 2 * (marker
\* changes) - 1 elements for a non-empty result; the output is those
\* elements joined by "\n\n", an empty string for an empty result.
C11_BlocksWithSeparators ==
    (jt_pc = "returned" /\ NoIncomplete(jt_data.data)) =>
        LET n == Len(jt_data.data)
            m == MarkerChanges(jt_data.data)
            parts == jt_st.text_parts
        IN  /\ Len(parts) = IF n = 0 THEN 0 ELSE n + 2 * m - 1
            /\ Cardinality({k \in 1..Len(parts) : IsMarker(parts[k])}) = m
            /\ Cardinality({k \in 1..Len(parts) : parts[k] = <<>>}) = Max(m - 1, 0)
            /\ \A k \in 1..Len(parts) :
                  parts[k] = <<>> => (k < Len(parts) /\ IsMarker(parts[k + 1]))
            /\ Separators(jt_out) = Max(Len(parts) - 1, 0)
            /\ SelectSeq(jt_out, LAMBDA t : t # "\n\n")
                  = Join(<<>>, parts)

\* three complete items on two pages, rendered and returned
C11_Witness ==
    /\ jt_pc = "returned"
    /\ Len(jt_data.data) = 3
    /\ NoIncomplete(jt_data.data)
    /\ MarkerChanges(jt_data.data) = 2
    /\ Len(jt_st.text_parts) = 6

\* C12: for each chunk the model is called at most 5 times; a call is the
\* first one after the slot was taken or follows an attempt that raised; a
\* successful attempt ends the task; after the fifth failed attempt the task
\* makes no further call.
C12_AtMostFiveAttempts ==
    [][\A d \in Docs : \A c \in Chunks(d) :
          /\ attempt[d][c] <= StopAfterAttempt
          /\ attempt'[d][c] <= StopAfterAttempt
          /\ (tpc[d][c] # "calling" /\ tpc'[d][c] = "calling") =>
                \/ tpc[d][c] = "acquire" /\ attempt'[d][c] = 1
                \/ tpc[d][c] = "backoff" /\ attempt'[d][c] = attempt[d][c] + 1
          /\ tpc'[d][c] = "backoff" =>
                (tpc[d][c] \in {"calling", "backoff"}
                 /\ attempt'[d][c] < StopAfterAttempt)
          /\ (tpc[d][c] = "calling" /\ model_json'[d][c] # NoneVal) =>
                tpc'[d][c] = "done"
          /\ (tpc[d][c] = "calling" /\ attempt[d][c] = StopAfterAttempt) =>
                tpc'[d][c] \in {"calling", "cooldown", "done"}
          /\ tpc[d][c] \in {"cooldown", "done"} =>
                tpc'[d][c] \in {"cooldown", "done"}
    ]_vars

\* the fifth call of a chunk is in flight
C12_Witness ==
    \E d \in Docs : \E c \in Chunks(d) :
        tpc[d][c] = "calling" /\ attempt[d][c] = StopAfterAttempt

\* no chunk of d got a response with an item in it
NoItems(d) ==
    \A c \in Chunks(d) :
        \/ model_json[d][c] = NoneVal
        \/ ~Present(model_json[d][c])
        \/ model_json[d][c].data = <<>>

\* C13: when no chunk contributes an item (a document without pages, or one
\* all of whose chunks fail or answer without items) the merged result is
\* {data: []}, the rendered text is empty, and extract_text, once all its
\* chunk tasks are done, goes on to write the (empty) file.
C13_EmptyResultStillWritten ==
    \A d \in Docs :
        /\ (dpc[d] = "written" /\ NoItems(d)) =>
              /\ final_json[d] = [data |-> <<>>]
              /\ output[d] = <<>>
        /\ (dpc[d] = "gather" /\ \A c \in Chunks(d) : tpc[d][c] = "done") =>
              ENABLED GatherReturns(d)

\* a written document all of whose chunks failed, next to one without pages
C13_Witness ==
    \E d \in Docs :
        /\ dpc[d] = "written"
        /\ Len(tpc[d]) >= 1
        /\ \A c \in Chunks(d) : Failed(d, c)
        /\ output[d] = <<>>

\* C14: once the attempts are used up, the exception _process_chunk catches
\* is the one the last attempt raised, so the text it tests for the quota
\* signature is that exception's own text.
C14_FinalExceptionReachesCaller ==
    \A d \in Docs : \A c \in Chunks(d) :
        final_exc[d][c] # NoneVal => error_msg[d][c] = final_exc[d][c].msg

\* the text names a quota or a rate limit, in whatever case
HasQuotaText(msg) ==
    \E i \in 1..Len(msg) :
        \/ LowerTok(msg[i]) = "quota"
        \/ /\ i + 2 <= Len(msg)
           /\ LowerTok(msg[i]) = "rate"
           /\ msg[i + 1] = " "
           /\ LowerTok(msg[i + 2]) = "limit"

\* the step in which the except branch of _process_chunk is entered
EntersExcept(d, c) ==
    /\ tpc[d][c] = "calling"
    /\ final_exc[d][c] = NoneVal
    /\ final_exc'[d][c] # NoneVal

C16_WaitsDoubleFromFour ==
    \A d \in Docs : \A c \in Chunks(d) :
        tpc[d][c] = "backoff" =>
            sleep_s[d][c] = <<4, 8, 16, 32>>[attempt[d][c]]

\* C16: the waits before attempts 2, 3, 4 and 5 are 4, 4, 8 and 16 seconds:
\* 2 * 2^(n-1) after failed attempt n, raised to the minimum of 4 and capped
\* at 60; the wait never shrinks and at most doubles from one to the next.
C16_WaitsClampedFromTwo ==
    \A d \in Docs : \A c \in Chunks(d) :
        tpc[d][c] = "backoff" =>
            /\ attempt[d][c] \in 1..(StopAfterAttempt - 1)
            /\ sleep_s[d][c] = <<4, 4, 8, 16>>[attempt[d][c]]
            /\ sleep_s[d][c] >= WaitMin /\ sleep_s[d][c] <= WaitMax

\* the wait before the fifth attempt
C16_Witness ==
    \E d \in Docs : \E c \in Chunks(d) :
        /\ tpc[d][c] = "backoff"
        /\ attempt[d][c] = StopAfterAttempt - 1
        /\ sleep_s[d][c] = 16

\* first position from p on at which w occurs in out, 0 when there is none
RECURSIVE FirstAt(_, _, _)
FirstAt(out, w, p) ==
    IF p + Len(w) - 1 > Len(out) THEN 0
    ELSE IF SubSeq(out, p, p + Len(w) - 1) = w THEN p
    ELSE FirstAt(out, w, p + 1)

\* the contents of items k.. occur in out from position p on, one after
\* the other and without overlap
RECURSIVE InOrderFrom(_, _, _, _)
InOrderFrom(out, items, k, p) ==
    IF k > Len(items) THEN TRUE
    ELSE \E q \in {FirstAt(out, Content(items[k]), p)} :
            /\ q # 0
            /\ InOrderFrom(out, items, k + 1, q + Len(Content(items[k])))

\* C17: _json_to_text loses no content: whatever the types and
\* is_incomplete flags of the items, the content of every item occurs in the
\* returned text, and the contents occur in the order of the input.
C17_NoContentLost ==
    jt_pc = "returned" => InOrderFrom(jt_out, jt_data.data, 1, 1)

\* an incomplete sub_title, then an incomplete paragraph, then a paragraph:
\* two stitches in a row, the three contents in one block
C17_Witness ==
    /\ jt_pc = "returned"
    /\ Len(jt_data.data) = 3
    /\ ItemType(jt_data.data[1]) = "sub_title" /\ IsIncomplete(jt_data.data[1])
    /\ ItemType(jt_data.data[2]) = "paragraph" /\ IsIncomplete(jt_data.data[2])
    /\ ItemType(jt_data.data[3]) = "paragraph"
    /\ Content(jt_data.data[1]) = <<"a">>
    /\ Content(jt_data.data[2]) = <<"b">>
    /\ Content(jt_data.data[3]) = <<"a">>
    /\ Contains(jt_out, <<"a", " ", "b", " ", "a">>)

\* chunks of document d that hold a slot while asleep: in a backoff wait of
\* the retry, or in the cooldown of the except branch
Sleeping(d) == {c \in Chunks(d) : tpc[d][c] \in {"backoff", "cooldown"}}

\* C18: a chunk keeps its slot from before its first attempt to its final
\* outcome, the backoff waits and the 10 second cooldown included: the step
\* that puts a holder to sleep or wakes it leaves the limiter's counter
\* alone, the counter only rises when a holder returns, and it misses one
\* slot for every holder, asleep or calling; so a pending chunk starts only
\* when fewer than concurrency_limit chunks hold a slot, and not at all
\* while sleeping chunks hold them all.
C18_SlotHeldWhileWaiting ==
    [][/\ semaphore' = concurrency_limit' - TotalHeld'
       /\ \A d \in Docs : \A c \in Chunks(d) :
             /\ (c \in Held(d) /\ tpc'[d][c] # tpc[d][c] /\ tpc'[d][c] # "done")
                    => (semaphore' = semaphore /\ c \in Held(d)')
             /\ (tpc[d][c] = "acquire" /\ tpc'[d][c] # "acquire")
                    => /\ TotalHeld < concurrency_limit
                       /\ tpc'[d][c] = "calling"
                       /\ semaphore' = semaphore - 1
       /\ semaphore' > semaphore =>
             \E d \in Docs : \E c \in Held(d) : tpc'[d][c] = "done"]_vars

\* every slot is held by a chunk that sleeps, no call is in flight, and a
\* pending chunk waits
C18_Witness ==
    /\ \E d \in Docs : Sleeping(d) # {}
    /\ \E d \in Docs : \E c \in Chunks(d) : tpc[d][c] = "acquire"
    /\ \A d \in Docs : InFlight(d) = {}
    /\ semaphore = 0

\* what the task of chunk c returns, from the chunk's final outcome alone:
\* the rebased response, or None when the call failed for good
OutcomeResult(d, c) ==
    IF model_json[d][c] = NoneVal THEN NoneVal
    ELSE Rebase(model_json[d][c], (c - 1) * chunk_size)

\* C19: the output of extract_text is a function of the outcomes of the
\* chunks alone: the merged result is the merge, in chunk order, of what
\* each chunk's final outcome gives, and the text is its rendering; neither
\* depends on the order in which the tasks ran, were retried and completed.
\* So two extractions of documents of the same page count in which every
\* chunk got the same response or failed alike end with the same merged
\* result and the same text.
C19_OutputFunctionOfOutcomes ==
    /\ \A d \in Docs :
          dpc[d] = "written" =>
              /\ final_json[d]
                    = MergeResults([c \in 1..Len(tpc[d]) |-> OutcomeResult(d, c)])
              /\ output[d] = JsonToText(final_json[d])
    /\ \A d1 \in Docs : \A d2 \in Docs :
          (/\ dpc[d1] = "written" /\ dpc[d2] = "written"
           /\ page_count[d1] = page_count[d2]
           /\ model_json[d1] = model_json[d2])
              => /\ final_json[d1] = final_json[d2]
                 /\ output[d1] = output[d2]

\* the second chunk used up its attempts and still completed before the
\* first, whose items make the text
C19_Witness ==
    \E d \in Docs :
        /\ dpc[d] = "written"
        /\ completed[d] = <<2, 1>>
        /\ Failed(d, 2) /\ final_exc[d][2] # NoneVal
        /\ model_json[d][1] # NoneVal
        /\ final_json[d].data # <<>>
        /\ output[d] # <<>>

\* the page numbers a text may show
MarkerRange == 0..(MaxPages + MaxLocalPage)

\* the page numbers of the markers of a text, in the order of the text
RECURSIVE MarkerPages(_)
MarkerPages(text) ==
    IF Len(text) < 3 THEN <<>>
    ELSE IF text[1] = "[page_index: " /\ text[3] = "]"
         THEN <<CHOOSE n \in MarkerRange : ToString(n) = text[2]>>
              \o MarkerPages(SubSeq(text, 4, Len(text)))
         ELSE MarkerPages(Tail(text))

\* the page an item counts for, page 0 when it names none
PageOrZero(x) == IF "page_index" \in DOMAIN x THEN x.page_index ELSE 0

\* C20: in the text rendered from the merged result the page markers are in
\* strictly ascending page order, so no page has two markers, and the pages
\* marked are those of the merged items, an item without page_index counting
\* for page 0 in the sort and in the rendering alike.
C20_MarkersAscending ==
    \A d \in Docs :
        dpc[d] = "written" =>
            LET ps == MarkerPages(output[d])
            IN  /\ \A i \in 1..Len(ps) : \A j \in 1..Len(ps) :
                      i < j => ps[i] < ps[j]
                /\ Range(ps) = {PageOrZero(x) : x \in Range(final_json[d].data)}

\* a text with two markers, the first for an item without page_index that
\* the second chunk returned
C20_Witness ==
    \E d \in Docs :
        /\ dpc[d] = "written"
        /\ Len(MarkerPages(output[d])) = 2
        /\ Len(final_json[d].data) = 2
        /\ "page_index" \notin DOMAIN final_json[d].data[1]
        /\ final_json[d].data[1] \in Range(task_result[d][2].data)
        /\ "page_index" \in DOMAIN final_json[d].data[2]

====
